---- MODULE Spec2Model ----
(***************************************************************************)
(* Model of the Phoenix JSON -> PostgreSQL importer                        *)
(* (src/phoenix_importer.py).  One run of process_data is a sequence of    *)
(* steps (pc); the destination table, the progress log, the trace of       *)
(* destination accesses and the exported script are the state.             *)
(*                                                                         *)
(* Values are tagged: [k |-> kind, n |-> payload].  Strings are numbered   *)
(* ("x" is StrV(1), "y" is StrV(2)).  A missing field and a JSON null are    *)
(* both Null (pandas NaN / None).                                          *)
(*                                                                         *)
(* Scaling: the code's batch sizes (500 live, 100 script) are scaled to    *)
(* LiveBatchSize and ScriptBatchSize so that inputs of MaxRecs records     *)
(* span several batches; only "live batch > script batch > 0" is kept.     *)
(***************************************************************************)
EXTENDS Naturals, Integers, Sequences, FiniteSets, TLC

\* ------------------------------------------------------------------ bounds
MaxRecs == 3
\* Clicks on START PROCESS in one behaviour of the window.
MaxClicks == 2

\* batch_size of the live upsert (500 in the code, scaled)
LiveBatchSize == 2
\* batch_size of the script renderer (100 in the code, scaled)
ScriptBatchSize == 1

\* ------------------------------------------------------------------ values
Null == [k |-> "null", n |-> 0]
IntV(n) == [k |-> "int", n |-> n]
StrV(n) == [k |-> "str", n |-> n]

NoPk == "none"
Fields == {"id", "v"}
KeyNumbers == {1, 2}
FieldVals(f) == IF f = "id" THEN {IntV(n) : n \in KeyNumbers} ELSE {StrV(1), StrV(2)}
AllVals == UNION {FieldVals(f) : f \in Fields}

\* A JSON object of the input array: a function from some (at least one) of the
\* fields to values.  One record stands for the records without a key: the
\* importer tells them apart by nothing.
RecordShapes ==
    {r \in UNION {[S -> AllVals] : S \in (SUBSET Fields) \ {{}}} :
        /\ \A f \in DOMAIN r : r[f] \in FieldVals(f)
        /\ "id" \notin DOMAIN r => r["v"] = StrV(1)}

RECURSIVE SeqsUpTo(_, _)
SeqsUpTo(S, n) ==
    IF n = 0 THEN {<<>>}
    ELSE LET shorter == SeqsUpTo(S, n - 1)
         IN shorter \cup {Append(s, x) : s \in {t \in shorter : Len(t) = n - 1}, x \in S}

Range(s) == {s[i] : i \in DOMAIN s}

Min(a, b) == IF a < b THEN a ELSE b

\* Subsequence of s at the (ascending) indices in idx.
RECURSIVE Pick(_, _, _)
Pick(s, idx, from) ==
    IF from > Len(s) THEN <<>>
    ELSE IF from \in idx THEN <<s[from]>> \o Pick(s, idx, from + 1)
    ELSE Pick(s, idx, from + 1)

\* ------------------------------------------------------------------ DataFrame
\* The dtype pandas gives a column when the frame is built, from the column's
\* values (Null among them when a record lacks the field): integers are int64
\* only without a missing value, else float64; booleans are bool only without
\* a missing value; everything else, a column of nulls included, is object.
SeriesDtype(vals) ==
    LET nonnull == vals \ {Null}
    IN IF nonnull = {} THEN "object"
       ELSE IF \A x \in nonnull : x.k = "int"
            THEN (IF Null \in vals THEN "float64" ELSE "int64")
       ELSE IF \A x \in nonnull : x.k \in {"int", "float"} THEN "float64"
       ELSE IF \A x \in vals : x.k = "bool" THEN "bool"
       ELSE "object"

\* pd.DataFrame(data): the columns are the union of the records' fields, a
\* record's missing field is Null; each column gets its dtype.
DataFrame(recs) ==
    LET cols == UNION {DOMAIN recs[i] : i \in DOMAIN recs}
        rows == [i \in DOMAIN recs |->
                    [c \in cols |-> IF c \in DOMAIN recs[i] THEN recs[i][c] ELSE Null]]
    IN [cols |-> cols,
        rows |-> rows,
        dtypes |-> [c \in cols |-> SeriesDtype({rows[i][c] : i \in DOMAIN rows})]]

NoFrame == [cols |-> {}, rows |-> <<>>, dtypes |-> <<>>]

\* df.duplicated(subset=[pk], keep=False): the indices of the rows whose key
\* occurs more than once (pandas counts two missing keys as equal).
DuplicatedIdx(fr, pk) ==
    {i \in DOMAIN fr.rows : \E j \in DOMAIN fr.rows : j # i /\ fr.rows[j][pk] = fr.rows[i][pk]}

\* A buggy resolver that keeps the first occurrence.
DropDuplicatesKeepFirst(fr, pk) ==
    LET keep == {i \in DOMAIN fr.rows :
                    \A j \in DOMAIN fr.rows : j < i => fr.rows[j][pk] # fr.rows[i][pk]}
    IN [fr EXCEPT !.rows = Pick(fr.rows, keep, 1)]

\* df.drop_duplicates(subset=[pk], keep='last')
DropDuplicates(fr, pk) ==
    LET keep == {i \in DOMAIN fr.rows :
                    \A j \in DOMAIN fr.rows : j > i => fr.rows[j][pk] # fr.rows[i][pk]}
    IN [fr EXCEPT !.rows = Pick(fr.rows, keep, 1)]

\* df[col].dtype: the dtype the column got when the frame was built (dropping
\* rows does not change it).
ColDtype(fr, c) == fr.dtypes[c]

\* analyze_dataframe: column -> SQLAlchemy type
analyze_dataframe(fr) ==
    [c \in fr.cols |->
        LET sample == {fr.rows[i][c] : i \in DOMAIN fr.rows} \ {Null}
            dt == ColDtype(fr, c)
        IN IF \E x \in sample : x.k = "json" THEN "JSONB"
           ELSE IF dt = "int64" THEN "BigInteger"
           ELSE IF dt = "float64" THEN "Float"
           ELSE IF dt = "bool" THEN "Boolean"
           ELSE "String"]

\* The column type of the DDL the code writes itself (script CREATE TABLE and
\* ALTER TABLE ADD COLUMN).
SqlType(dtype) ==
    CASE dtype = "JSONB" -> "JSONB"
      [] dtype = "BigInteger" -> "BIGINT"
      [] dtype = "Float" -> "NUMERIC"
      [] dtype = "Boolean" -> "BOOLEAN"
      [] OTHER -> "TEXT"

\* The column type pandas to_sql creates for a SQLAlchemy type of dtype_map.
ToSqlType(dtype) ==
    CASE dtype = "JSONB" -> "JSONB"
      [] dtype = "BigInteger" -> "BIGINT"
      [] dtype = "Float" -> "FLOAT"
      [] dtype = "Boolean" -> "BOOLEAN"
      [] OTHER -> "VARCHAR"

\* ------------------------------------------------------------------ destination
\* The destination table: cols maps a column name to its SQL type, pk is the set
\* of constrained columns of the primary key, rows are in insertion order,
\* serial is the next value of the id sequence (0: the table has none).
NoTable == [exists |-> FALSE, cols |-> <<>>, pk |-> {}, rows |-> <<>>, serial |-> 0]

\* The rows of a table as a bag (row -> multiplicity): its contents, whatever
\* the physical order.
Contents(d) ==
    [r \in Range(d.rows) |-> Cardinality({i \in DOMAIN d.rows : d.rows[i] = r})]

\* DROP TABLE IF EXISTS
DbDrop(d) == NoTable

\* df.to_sql(..., if_exists='replace', index=False, dtype=dtype_map): the table
\* is re-created from the frame, without any key, and every row is inserted.
DbToSqlReplace(fr, dtypes) ==
    [exists |-> TRUE,
     cols |-> [c \in fr.cols |-> ToSqlType(dtypes[c])],
     pk |-> {},
     rows |-> fr.rows,
     serial |-> 0]

\* ALTER TABLE ... ADD COLUMN id SERIAL PRIMARY KEY: existing rows are numbered.
DbAddSerialId(d) ==
    [d EXCEPT !.cols = [c \in DOMAIN d.cols \cup {"id"} |->
                            IF c = "id" THEN "SERIAL" ELSE d.cols[c]],
              !.pk = {"id"},
              !.rows = [i \in DOMAIN d.rows |->
                            [c \in DOMAIN d.cols \cup {"id"} |->
                                IF c = "id" THEN IntV(i) ELSE d.rows[i][c]]],
              !.serial = Len(d.rows) + 1]

\* Whether ALTER TABLE ... ADD PRIMARY KEY (col) is accepted: the column exists,
\* holds no NULL and no repeated value, and the table has no primary key yet.
CanAddPrimaryKey(d, col) ==
    /\ d.exists
    /\ col \in DOMAIN d.cols
    /\ d.pk = {}
    /\ \A i \in DOMAIN d.rows : d.rows[i][col] # Null
    /\ \A i, j \in DOMAIN d.rows : i # j => d.rows[i][col] # d.rows[j][col]

DbAddPrimaryKey(d, col) == [d EXCEPT !.pk = {col}]

\* ALTER TABLE ... ADD COLUMN "col" type: existing rows get NULL.
DbAddColumn(d, col, type) ==
    [d EXCEPT !.cols = [c \in DOMAIN d.cols \cup {col} |->
                            IF c = col THEN type ELSE d.cols[c]],
              !.rows = [i \in DOMAIN d.rows |->
                            [c \in DOMAIN d.cols \cup {col} |->
                                IF c = col THEN Null ELSE d.rows[i][c]]]]

\* The row an INSERT proposes for a table: a column the statement does not name
\* takes its default (the next sequence value for the serial id, else NULL).
Proposed(d, cols, row) ==
    [c \in DOMAIN d.cols |->
        IF c \in cols THEN row[c]
        ELSE IF c = "id" /\ d.serial > 0 THEN IntV(d.serial)
        ELSE Null]

\* One row of an INSERT ... [ON CONFLICT (pk) DO UPDATE SET setcols / DO NOTHING]
\* applied to the table.  touched: keys this statement already inserted or
\* updated.  The result is [ok, db, touched].
InsertRow(d, cols, row, conflict, pk, setcols, touched) ==
    LET new == Proposed(d, cols, row)
        d1 == IF "id" \notin cols /\ d.serial > 0
              THEN [d EXCEPT !.serial = d.serial + 1] ELSE d
        key == IF d.pk = {} THEN Null ELSE new[CHOOSE c \in d.pk : TRUE]
        hit == IF d.pk = {} THEN {}
               ELSE {i \in DOMAIN d.rows : d.rows[i][CHOOSE c \in d.pk : TRUE] = key}
    IN IF d.pk # {} /\ key = Null
       THEN [ok |-> FALSE, db |-> d, touched |-> touched]
       ELSE IF hit = {}
       THEN [ok |-> TRUE, db |-> [d1 EXCEPT !.rows = Append(d.rows, new)],
             touched |-> touched \cup {key}]
       ELSE IF conflict = "none"
       THEN [ok |-> FALSE, db |-> d, touched |-> touched]
       ELSE IF conflict = "nothing"
       THEN [ok |-> TRUE, db |-> d1, touched |-> touched]
       ELSE IF key \in touched
       THEN [ok |-> FALSE, db |-> d, touched |-> touched]
       ELSE [ok |-> TRUE,
             db |-> [d1 EXCEPT !.rows =
                        [i \in DOMAIN d.rows |->
                            IF i \in hit
                            THEN [c \in DOMAIN d.cols |->
                                    IF c \in setcols THEN new[c] ELSE d.rows[i][c]]
                            ELSE d.rows[i]]],
             touched |-> touched \cup {key}]

RECURSIVE InsertRows(_, _, _, _, _, _, _, _)
InsertRows(d, cols, rows, from, conflict, pk, setcols, touched) ==
    IF from > Len(rows) THEN [ok |-> TRUE, db |-> d]
    ELSE LET r == InsertRow(d, cols, rows[from], conflict, pk, setcols, touched)
         IN IF ~r.ok THEN [ok |-> FALSE, db |-> d]
            ELSE InsertRows(r.db, cols, rows, from + 1, conflict, pk, setcols, r.touched)

\* One INSERT statement executed by PostgreSQL: all of its rows or none.
\* conflict is "none", "update" or "nothing"; the result is [ok, db].
ExecInsert(d, cols, rows, conflict, pk, setcols) ==
    IF \/ ~d.exists
       \/ ~(cols \subseteq DOMAIN d.cols)
       \/ (conflict # "none" /\ d.pk # {pk})
       \/ (conflict = "update" /\ ~(setcols \subseteq DOMAIN d.cols))
    THEN [ok |-> FALSE, db |-> d]
    ELSE LET r == InsertRows(d, cols, rows, 1, conflict, pk, setcols, {})
         IN IF r.ok THEN r ELSE [ok |-> FALSE, db |-> d]

\* An append that skips the rows whose key exists (ON CONFLICT DO NOTHING).
DbToSqlAppendSkipping(d, fr, dtypes) ==
    IF ~d.exists THEN [ok |-> TRUE, db |-> DbToSqlReplace(fr, dtypes)]
    ELSE IF d.pk = {"id"} THEN ExecInsert(d, fr.cols, fr.rows, "nothing", "id", {})
    ELSE ExecInsert(d, fr.cols, fr.rows, "none", NoPk, {})

\* An append that first adds the columns the table lacks.
DbToSqlAppendEvolving(d, fr, dtypes) ==
    IF ~d.exists THEN [ok |-> TRUE, db |-> DbToSqlReplace(fr, dtypes)]
    ELSE LET widened ==
                [d EXCEPT !.cols = [c \in DOMAIN d.cols \cup fr.cols |->
                                        IF c \in DOMAIN d.cols THEN d.cols[c]
                                        ELSE ToSqlType(dtypes[c])],
                          !.rows = [k \in DOMAIN d.rows |->
                                        [c \in DOMAIN d.cols \cup fr.cols |->
                                            IF c \in DOMAIN d.cols THEN d.rows[k][c]
                                            ELSE Null]]]
         IN ExecInsert(widened, fr.cols, fr.rows, "none", NoPk, {})

\* df.to_sql(..., if_exists='append', index=False, dtype=dtype_map): pandas
\* creates a missing table from the frame, else inserts the frame's rows in one
\* transaction.  The result is [ok, db].
DbToSqlAppend(d, fr, dtypes) ==
    IF ~d.exists THEN [ok |-> TRUE, db |-> DbToSqlReplace(fr, dtypes)]
    ELSE ExecInsert(d, fr.cols, fr.rows, "none", NoPk, {})

\* ------------------------------------------------------------------ script
\* to_sql_literal: the SQL literal of a value.  form is the kind of token
\* written; k and n say which text it carries.
to_sql_literal(val) ==
    IF val.k = "null" THEN [form |-> "NULL", k |-> "null", n |-> 0]
    ELSE IF val.k = "json" THEN [form |-> "quoted", k |-> "json", n |-> val.n]
    ELSE IF val.k = "str" THEN [form |-> "quoted", k |-> "str", n |-> val.n]
    ELSE IF val.k = "bool" THEN [form |-> "keyword", k |-> "bool", n |-> val.n]
    ELSE [form |-> "number", k |-> val.k, n |-> val.n]

BadValue == [k |-> "error", n |-> 0]

\* The value PostgreSQL stores for a literal assigned to a column of a type;
\* BadValue when it rejects the literal.
ParseLiteral(lit, type) ==
    CASE lit.form = "NULL" -> Null
      [] lit.form = "quoted" ->
            IF type = "JSONB"
            THEN (IF lit.k = "json" THEN [k |-> "json", n |-> lit.n] ELSE BadValue)
            ELSE IF type \in {"TEXT", "VARCHAR"} THEN [k |-> "str", n |-> lit.n]
            ELSE BadValue
      [] lit.form = "keyword" ->
            IF type = "BOOLEAN" THEN [k |-> "bool", n |-> lit.n] ELSE BadValue
      [] OTHER ->
            IF type \in {"BIGINT", "NUMERIC", "FLOAT", "SERIAL"}
            THEN [k |-> lit.k, n |-> lit.n]
            ELSE BadValue

\* The statements of a script.  The fields a statement does not use are empty.
DropStmt == [op |-> "DROP", cols |-> {}, types |-> <<>>, pk |-> NoPk, serial |-> FALSE,
             rows |-> <<>>, conflict |-> "none", sets |-> {}]
CreateStmt(types, pk, serial) ==
    [op |-> "CREATE", cols |-> DOMAIN types, types |-> types, pk |-> pk, serial |-> serial,
     rows |-> <<>>, conflict |-> "none", sets |-> {}]
InsertStmt(cols, rows, conflict, pk, sets) ==
    [op |-> "INSERT", cols |-> cols, types |-> <<>>, pk |-> pk, serial |-> FALSE,
     rows |-> rows, conflict |-> conflict, sets |-> sets]

\* The INSERT statement of the batch records[from .. from+size-1]
\* (phoenix_importer.py, the body of the batch loop).
ScriptBatch(fr, from, size, mode, pk) ==
    LET batch == SubSeq(fr.rows, from, Min(from + size - 1, Len(fr.rows)))
        lits == [i \in DOMAIN batch |-> [c \in fr.cols |-> to_sql_literal(batch[i][c])]]
        update_sets == fr.cols \ {pk}
    IN IF mode = "upsert" /\ pk # NoPk
       THEN (IF update_sets # {}
             THEN InsertStmt(fr.cols, lits, "update", pk, update_sets)
             ELSE InsertStmt(fr.cols, lits, "nothing", pk, {}))
       ELSE InsertStmt(fr.cols, lits, "none", NoPk, {})

\* A batch loop that advances one record too far after each batch.
RECURSIVE ScriptBatchesSkipping(_, _, _, _, _)
ScriptBatchesSkipping(fr, from, size, mode, pk) ==
    IF from > Len(fr.rows) THEN <<>>
    ELSE <<ScriptBatch(fr, from, size, mode, pk)>>
         \o ScriptBatchesSkipping(fr, from + size + 1, size, mode, pk)

RECURSIVE ScriptBatches(_, _, _, _, _)
ScriptBatches(fr, from, size, mode, pk) ==
    IF from > Len(fr.rows) THEN <<>>
    ELSE <<ScriptBatch(fr, from, size, mode, pk)>>
         \o ScriptBatches(fr, from + size, size, mode, pk)

\* generate_sql_script(df, table_name, mode, pk_field): the statements of the
\* script, in order (the comment header lines are not statements).
generate_sql_script(fr, mode, pk) ==
    LET dtypes == analyze_dataframe(fr)
        head == IF mode = "nuke"
                THEN <<DropStmt,
                       CreateStmt([c \in fr.cols |-> SqlType(dtypes[c])],
                                  IF pk \in fr.cols THEN pk ELSE NoPk,
                                  pk = NoPk /\ "id" \notin fr.cols)>>
                ELSE <<>>
    IN head \o ScriptBatches(fr, 1, ScriptBatchSize, mode, pk)

\* PostgreSQL executing one statement of a script: [ok, db].
ExecStmt(d, st) ==
    CASE st.op = "DROP" -> [ok |-> TRUE, db |-> NoTable]
      [] st.op = "CREATE" ->
            IF d.exists THEN [ok |-> FALSE, db |-> d]
            ELSE LET base == [exists |-> TRUE, cols |-> st.types,
                              pk |-> IF st.pk = NoPk THEN {} ELSE {st.pk},
                              rows |-> <<>>, serial |-> 0]
                 IN [ok |-> TRUE, db |-> IF st.serial THEN DbAddSerialId(base) ELSE base]
      [] OTHER ->
            IF ~d.exists \/ ~(st.cols \subseteq DOMAIN d.cols) \/ st.cols = {}
            THEN [ok |-> FALSE, db |-> d]
            ELSE LET vals == [i \in DOMAIN st.rows |->
                                [c \in st.cols |-> ParseLiteral(st.rows[i][c], d.cols[c])]]
                 IN IF \E i \in DOMAIN vals : \E c \in st.cols : vals[i][c] = BadValue
                    THEN [ok |-> FALSE, db |-> d]
                    ELSE ExecInsert(d, st.cols, vals, st.conflict, st.pk, st.sets)

\* Replaying a script against a destination: the statements run in order, a
\* statement PostgreSQL rejects changes nothing and the replay goes on.
RECURSIVE Replay(_, _, _)
Replay(script, from, d) ==
    IF from > Len(script) THEN d
    ELSE Replay(script, from + 1, ExecStmt(d, script[from]).db)

\* ------------------------------------------------------------------ state
VARIABLES
    root,         \* shape of the JSON document: "list", "object" or "unreadable"
    data,         \* the records of the JSON array
    req_mode,     \* mode of the request: "nuke", "append" or "upsert"
    pk_field,     \* chosen primary-key field, or NoPk
    export,       \* TRUE: export_path is given (script sink); FALSE: live sink
    mode,         \* mode of the process_data call that is executing
    nested,       \* TRUE once upsert has called process_data(mode='nuke')
    pc,           \* position in process_data
    df,           \* the DataFrame
    dtype_map,    \* analyze_dataframe(df)
    table_exists, \* inspector.has_table(table_name)
    new_cols,     \* columns still to add (schema evolution)
    reflected,    \* columns of Table(table_name, autoload_with=engine)
    i,            \* first record of the next batch (1-based)
    db,           \* the destination table
    db0,          \* the destination table when the first run began
    file,         \* the statements written to export_path
    written,      \* TRUE once export_path has been written
    logs,         \* messages given to gui_callback, in order
    trace,        \* steps taken and destination accesses, in order
    outcome,      \* "running", "success" or the error raised
    run,          \* 1; 2 or 3 for a run started to compare with the first
    first,        \* what the first run left: [db, logs, outcome]
    workers,      \* the WorkerThreads the window has started, in order
    accesses,     \* the destination accesses of the worker threads, in order
    shared_table  \* TRUE when the table the worker threads import into exists

vars == <<root, data, req_mode, pk_field, export, mode, nested, pc, df, dtype_map,
          table_exists, new_cols, reflected, i, db, db0, file, written, logs, trace,
          outcome, run, first, workers, accesses, shared_table>>

request == <<root, data, req_mode, pk_field, export>>
gui == <<workers, accesses, shared_table>>
harness == <<run, first, db0, gui>>

Modes == {"nuke", "append", "upsert"}
RootKinds == {"list", "object", "unreadable"}
PkChoices == {NoPk, "id"}

Log(m, n) == [m |-> m, n |-> n]

\* Destination accesses that read the destination.
ReadOps == {"has_table", "get_pk_constraint", "get_columns", "autoload"}
\* Destination accesses that write it, and writing the script file.
WriteOps == {"drop", "to_sql_replace", "add_serial", "add_pk", "to_sql_append",
             "add_column", "upsert_batch", "file_write"}
DestOps == ReadOps \cup WriteOps

\* ------------------------------------------------------------------ inputs
Inputs == SeqsUpTo(RecordShapes, MaxRecs)

SeedFull == <<[id |-> IntV(1), v |-> StrV(1)]>>
SeedKeyOnly == <<[id |-> IntV(1)]>>
SeedNoKey == <<[v |-> StrV(1)]>>

\* What a successful live Nuke run with a chosen key leaves (to_sql replace,
\* then ADD PRIMARY KEY).
NukedTable(recs, pk) ==
    LET fr == DataFrame(recs)
    IN DbAddPrimaryKey(DbToSqlReplace(fr, analyze_dataframe(fr)), pk)

\* What a successful live Nuke run without key and without 'id' leaves.
NukedSerialTable(recs) ==
    LET fr == DataFrame(recs)
    IN DbAddSerialId(DbToSqlReplace(fr, analyze_dataframe(fr)))

\* What Append leaves on a destination without the table: no key at all.
AppendedTable(recs) ==
    LET fr == DataFrame(recs)
    IN DbToSqlReplace(fr, analyze_dataframe(fr))

\* The destinations a run may find.
DbPool == {NoTable,
           NukedTable(SeedFull, "id"),
           NukedTable(SeedKeyOnly, "id"),
           NukedSerialTable(SeedNoKey),
           AppendedTable(SeedFull)}

NoFirst == [db |-> NoTable, logs |-> <<>>, outcome |-> "none"]

Init ==
    /\ root \in RootKinds
    /\ data \in (IF root = "list" THEN Inputs ELSE {<<>>})
    /\ req_mode \in Modes
    /\ pk_field \in PkChoices
    /\ export \in BOOLEAN
    /\ db \in (IF export THEN {NoTable} ELSE DbPool)
    /\ db0 = db
    /\ mode = req_mode
    /\ nested = FALSE
    /\ pc = "read"
    /\ df = NoFrame
    /\ dtype_map = <<>>
    /\ table_exists = FALSE
    /\ new_cols = {}
    /\ reflected = {}
    /\ i = 1
    /\ file = <<>>
    /\ written = FALSE
    /\ logs = <<>>
    /\ trace = <<>>
    /\ outcome = "running"
    /\ run = 1
    /\ first = NoFirst
    /\ workers = <<>>
    /\ accesses = <<>>
    /\ shared_table = FALSE

\* raise: the run ends with the error.
Raise(err) ==
    /\ outcome' = err
    /\ pc' = "done"

\* The order of df.columns (pandas keeps the order of first appearance; the
\* model fixes one order).
ColumnOrder == <<"id", "v">>
FirstCol(S) ==
    ColumnOrder[CHOOSE k \in DOMAIN ColumnOrder :
                    /\ ColumnOrder[k] \in S
                    /\ \A j \in 1..(k - 1) : ColumnOrder[j] \notin S]

\* ------------------------------------------------------------------ process_data
\* A root check that lets every parsed document through.
IsListAny(r) == r # "unreadable"

\* isinstance(data, list)
IsList(r) == r = "list"

\* A key check that is skipped for an empty array.
PkMissingIfRows(fr, pk) == pk # NoPk /\ pk \notin fr.cols /\ fr.rows # <<>>

\* pk_field and pk_field not in df.columns
PkMissing(fr, pk) == pk # NoPk /\ pk \notin fr.cols

\* A constraint check that accepts every table.
HasConstraintAlways(d, pk) == TRUE

\* pk_field in existing_pks
HasConstraint(d, pk) == pk \in d.pk

\* A nested call that appends instead.
InitModeAppend == "append"

\* The mode of the nested process_data call of an upsert on a missing table.
InitMode == "nuke"

\* Read the JSON file and build the DataFrame.
ReadJson ==
    /\ pc = "read"
    /\ trace' = Append(trace, "read")
    /\ IF root = "unreadable"
       THEN /\ logs' = logs \o <<Log("reading", 0), Log("err_read", 0)>>
            /\ Raise("ReadError")
            /\ df' = df
       ELSE IF ~IsList(root)
       THEN /\ logs' = logs \o <<Log("reading", 0), Log("err_root", 0)>>
            /\ Raise("InvalidInput")
            /\ df' = df
       ELSE /\ df' = DataFrame(data)
            /\ logs' = logs \o <<Log("reading", 0), Log("loaded", Len(data))>>
            /\ pc' = "dupcheck"
            /\ outcome' = outcome
    /\ UNCHANGED <<request, harness, mode, nested, dtype_map, table_exists, new_cols,
                   reflected, i, db, file, written>>

\* A duplicate check that only warns.
ResolveNothing(fr, pk) == fr

\* The frame the duplicate check leaves: last-wins when a key is chosen and
\* some key repeats.
Resolve(fr, pk) ==
    IF pk # NoPk /\ DuplicatedIdx(fr, pk) # {} THEN DropDuplicates(fr, pk) ELSE fr

\* The messages of the duplicate check.
DupLogs(fr, pk) ==
    IF pk # NoPk /\ DuplicatedIdx(fr, pk) # {}
    THEN <<Log("warn_dupes", Cardinality(DuplicatedIdx(fr, pk))),
           Log("warn_examples", 0),
           Log("cleaning", 0),
           Log("cleaned", Len(fr.rows) - Len(DropDuplicates(fr, pk).rows))>>
    ELSE <<>>

\* --- DUPLICATE CHECK ---
DupCheck ==
    /\ pc = "dupcheck"
    /\ trace' = Append(trace, "resolve")
    /\ IF PkMissing(df, pk_field)
       THEN /\ logs' = Append(logs, Log("err_pk", 0))
            /\ Raise("MissingField")
            /\ df' = df
       ELSE /\ logs' = logs \o DupLogs(df, pk_field)
            /\ df' = Resolve(df, pk_field)
            /\ pc' = "infer"
            /\ outcome' = outcome
    /\ UNCHANGED <<request, harness, mode, nested, dtype_map, table_exists, new_cols,
                   reflected, i, db, file, written>>

\* Inferring SQL schema
Infer ==
    /\ pc = "infer"
    /\ trace' = Append(trace, "infer")
    /\ logs' = Append(logs, Log("inferring", 0))
    /\ dtype_map' = analyze_dataframe(df)
    /\ pc' = IF export /\ ~nested THEN "export" ELSE "inspect"
    /\ UNCHANGED <<request, harness, mode, nested, df, table_exists, new_cols,
                   reflected, i, db, file, written, outcome>>

\* --- SQL EXPORT MODE ---: render the script and write it; the write may fail.
Export ==
    /\ pc = "export"
    /\ \E ok \in BOOLEAN :
        IF ok
        THEN /\ file' = generate_sql_script(df, mode, pk_field)
             /\ written' = TRUE
             /\ trace' = trace \o <<"render", "file_write">>
             /\ logs' = logs \o <<Log("exporting", 0), Log("saved", 0)>>
             /\ outcome' = "success"
             /\ pc' = "done"
        ELSE /\ trace' = Append(trace, "render")
             /\ logs' = logs \o <<Log("exporting", 0), Log("err_export", 0)>>
             /\ Raise("ExportFailed")
             /\ UNCHANGED <<file, written>>
    /\ UNCHANGED <<request, harness, mode, nested, df, dtype_map, table_exists, new_cols,
                   reflected, i, db>>

\* A dispatch that misses the nuke branch and falls into append.
BranchNoNuke(m) == IF m = "nuke" THEN "append" ELSE m

\* if mode == 'nuke': ... elif mode == 'append': ... elif mode == 'upsert': ...
Branch(m) == m

\* inspector.has_table(table_name), then the branch of the mode.
Inspect ==
    /\ pc = "inspect"
    /\ trace' = Append(trace, "has_table")
    /\ table_exists' = db.exists
    /\ pc' = Branch(mode)
    /\ UNCHANGED <<request, harness, mode, nested, df, dtype_map, new_cols, reflected, i,
                   db, file, written, logs, outcome>>

\* NUKE: DROP TABLE IF EXISTS; the drop may fail (the table is in use).
NukeDrop ==
    /\ pc = "nuke"
    /\ trace' = Append(trace, "drop")
    /\ \E ok \in BOOLEAN :
        IF ok
        THEN /\ db' = DbDrop(db)
             /\ logs' = logs \o <<Log("nuke_drop", 0), Log("creating", 0)>>
             /\ pc' = "nuke_create"
             /\ outcome' = outcome
        ELSE /\ db' = db
             /\ logs' = logs \o <<Log("nuke_drop", 0), Log("err_drop", 0)>>
             /\ Raise("DropFailed")
    /\ UNCHANGED <<request, harness, mode, nested, df, dtype_map, table_exists, new_cols,
                   reflected, i, file, written>>

\* NUKE: df.to_sql(if_exists='replace'); a failure is raised as it is.
NukeCreate ==
    /\ pc = "nuke_create"
    /\ trace' = Append(trace, "to_sql_replace")
    /\ \E ok \in BOOLEAN :
        IF ok
        THEN /\ db' = DbToSqlReplace(df, dtype_map)
             /\ pc' = "nuke_pk"
             /\ outcome' = outcome
        ELSE /\ db' = db
             /\ Raise("CreateFailed")
    /\ UNCHANGED <<request, harness, mode, nested, df, dtype_map, table_exists, new_cols,
                   reflected, i, file, written, logs>>

\* NUKE: # Set PK.  A serial id when no key is chosen and the data has no 'id';
\* else ADD PRIMARY KEY, whose failure is a warning.
NukeSetPk ==
    /\ pc = "nuke_pk"
    /\ LET pk_col == IF pk_field # NoPk THEN pk_field ELSE "id"
       IN IF pk_col = "id" /\ "id" \notin df.cols
          THEN /\ trace' = Append(trace, "add_serial")
               /\ logs' = Append(logs, Log("gen_serial", 0))
               /\ db' = DbAddSerialId(db)
          ELSE /\ trace' = Append(trace, "add_pk")
               /\ IF CanAddPrimaryKey(db, pk_col)
                  THEN /\ db' = DbAddPrimaryKey(db, pk_col)
                       /\ logs' = Append(logs, Log("set_pk", 0))
                  ELSE /\ db' = db
                       /\ logs' = logs \o <<Log("set_pk", 0), Log("warn_pk", 0)>>
    /\ pc' = "finish"
    /\ UNCHANGED <<request, harness, mode, nested, df, dtype_map, table_exists, new_cols,
                   reflected, i, file, written, outcome>>

\* APPEND: df.to_sql(if_exists='append')
AppendRows ==
    /\ pc = "append"
    /\ trace' = Append(trace, "to_sql_append")
    /\ LET r == DbToSqlAppend(db, df, dtype_map)
       IN IF r.ok
          THEN /\ db' = r.db
               /\ logs' = Append(logs, Log("append", 0))
               /\ pc' = "finish"
               /\ outcome' = outcome
          ELSE /\ db' = db
               /\ logs' = logs \o <<Log("append", 0), Log("err_append", 0)>>
               /\ Raise("AppendFailed")
    /\ UNCHANGED <<request, harness, mode, nested, df, dtype_map, table_exists, new_cols,
                   reflected, i, file, written>>

\* UPSERT: a key is required; a missing table is initialised by calling
\* process_data again with mode='nuke' (and no export_path).
UpsertCheck ==
    /\ pc = "upsert"
    /\ IF pk_field = NoPk
       THEN /\ Raise("NoPkError")
            /\ UNCHANGED <<mode, nested, logs>>
       ELSE IF ~table_exists
       THEN /\ logs' = Append(logs, Log("init_nuke", 0))
            /\ mode' = InitMode
            /\ nested' = TRUE
            /\ pc' = "read"
            /\ outcome' = outcome
       ELSE /\ pc' = "constraint"
            /\ UNCHANGED <<mode, nested, logs, outcome>>
    /\ UNCHANGED <<request, harness, df, dtype_map, table_exists, new_cols, reflected, i,
                   db, file, written, trace>>

\* A column list that names every incoming column.
NewColsAll(fr, d) == fr.cols

\* new_cols = [c for c in df.columns if c not in existing_cols]
NewCols(fr, d) == fr.cols \ DOMAIN d.cols

\* --- CONSTRAINT VERIFICATION --- and the columns to add.
UpsertConstraint ==
    /\ pc = "constraint"
    /\ IF ~HasConstraint(db, pk_field)
       THEN /\ trace' = Append(trace, "get_pk_constraint")
            /\ logs' = logs \o <<Log("err_nopk_1", 0), Log("err_nopk_2", 0)>>
            /\ Raise("MissingConstraint")
            /\ new_cols' = new_cols
       ELSE /\ trace' = trace \o <<"get_pk_constraint", "get_columns">>
            /\ new_cols' = NewCols(df, db)
            /\ logs' = IF new_cols' # {}
                       THEN Append(logs, Log("evolution", Cardinality(new_cols')))
                       ELSE logs
            /\ pc' = IF new_cols' # {} THEN "evolve" ELSE "reflect"
            /\ outcome' = outcome
    /\ UNCHANGED <<request, harness, mode, nested, df, dtype_map, table_exists,
                   reflected, i, db, file, written>>

\* Schema Evolution: ALTER TABLE ADD COLUMN for the next new column; a failure
\* is a warning.
Evolve ==
    /\ pc = "evolve"
    /\ new_cols # {}
    /\ LET col == FirstCol(new_cols)
       IN /\ trace' = Append(trace, "add_column")
          /\ new_cols' = new_cols \ {col}
          /\ \E ok \in BOOLEAN :
                IF ok
                THEN /\ db' = DbAddColumn(db, col, SqlType(dtype_map[col]))
                     /\ logs' = Append(logs, Log("added", 0))
                ELSE /\ db' = db
                     /\ logs' = Append(logs, Log("warn_addcol", 0))
    /\ pc' = IF new_cols' = {} THEN "reflect" ELSE "evolve"
    /\ UNCHANGED <<request, harness, mode, nested, df, dtype_map, table_exists,
                   reflected, i, file, written, outcome>>

\* Batch Upsert: reflect the table, announce the batches.
UpsertReflect ==
    /\ pc = "reflect"
    /\ trace' = Append(trace, "autoload")
    /\ reflected' = DOMAIN db.cols
    /\ logs' = Append(logs, Log("upserting", Len(df.rows)))
    /\ i' = 1
    /\ pc' = IF Len(df.rows) = 0 THEN "finish" ELSE "batch"
    /\ UNCHANGED <<request, harness, mode, nested, df, dtype_map, table_exists, new_cols,
                   db, file, written, outcome>>

\* The columns the live upsert overwrites on conflict: stmt.excluded holds
\* every column of the reflected table.
update_cols(tablecols, pk) == tablecols \ {pk}

\* A count that is not clamped to the total.
current_count_unclamped(from, total) == from + LiveBatchSize - 1

\* current_count = min(i + batch_size, total) (from is the 1-based first
\* record of the batch)
current_count(from, total) == Min(from + LiveBatchSize - 1, total)

\* One transaction around the whole loop: a failure rolls back every batch.
OnBatchFailureRollbackAll(d, d0) ==
    [d EXCEPT !.rows = [j \in DOMAIN d0.rows |->
                            [c \in DOMAIN d.cols |->
                                IF c \in DOMAIN d0.cols THEN d0.rows[j][c] ELSE Null]]]

\* What the destination holds when conn.execute raises: the statement's
\* transaction is rolled back as the connection closes; every earlier batch
\* was committed (conn.commit() in the loop) and stays.
OnBatchFailure(d, d0) == d

\* One batch: insert(table).values(batch) with ON CONFLICT, execute, commit.
\* A record field that is no column of the reflected table cannot be compiled;
\* the execution may fail for the destination's own reasons.
UpsertBatch ==
    /\ pc = "batch"
    /\ i <= Len(df.rows)
    /\ LET last == Min(i + LiveBatchSize - 1, Len(df.rows))
           batch == SubSeq(df.rows, i, last)
           upd == update_cols(reflected, pk_field)
           r == ExecInsert(db, df.cols, batch,
                           IF upd # {} THEN "update" ELSE "nothing", pk_field, upd)
       IN IF ~(df.cols \subseteq reflected)
          THEN /\ Raise("CompileError")
               /\ UNCHANGED <<db, logs, i, trace>>
          ELSE /\ trace' = Append(trace, "upsert_batch")
               /\ \E ok \in BOOLEAN :
                    IF ok /\ r.ok
                    THEN /\ db' = r.db
                         /\ logs' = Append(logs, Log("batch", current_count(i, Len(df.rows))))
                         /\ i' = i + LiveBatchSize
                         /\ pc' = IF i' > Len(df.rows) THEN "finish" ELSE "batch"
                         /\ outcome' = outcome
                    ELSE /\ Raise("BatchFailed")
                         /\ db' = OnBatchFailure(db, db0)
                         /\ UNCHANGED <<logs, i>>
    /\ UNCHANGED <<request, harness, mode, nested, df, dtype_map, table_exists, new_cols,
                   reflected, file, written>>

\* log("[SUCCESS] Operation ... complete.")
Finish ==
    /\ pc = "finish"
    /\ logs' = Append(logs, Log("success", 0))
    /\ outcome' = "success"
    /\ pc' = "done"
    /\ UNCHANGED <<request, harness, mode, nested, df, dtype_map, table_exists, new_cols,
                   reflected, i, db, file, written, trace>>

\* The operator restores the destination and runs the same input again, this
\* time in Nuke mode directly, after an Upsert run that initialised the table.
RerunAsNuke ==
    /\ pc = "done"
    /\ run = 1
    /\ nested
    /\ first' = [db |-> db, logs |-> logs, outcome |-> outcome]
    /\ run' = 2
    /\ req_mode' = "nuke"
    /\ mode' = "nuke"
    /\ nested' = FALSE
    /\ db' = db0
    /\ pc' = "read"
    /\ df' = NoFrame
    /\ dtype_map' = <<>>
    /\ table_exists' = FALSE
    /\ new_cols' = {}
    /\ reflected' = {}
    /\ i' = 1
    /\ logs' = <<>>
    /\ trace' = <<>>
    /\ outcome' = "running"
    /\ UNCHANGED <<root, data, pk_field, export, db0, file, written, gui>>

\* The operator runs the same Nuke request again on what the first run left.
RerunSame ==
    /\ pc = "done"
    /\ run = 1
    /\ root = "list" /\ req_mode = "nuke" /\ ~export /\ outcome = "success"
    /\ first' = [db |-> db, logs |-> logs, outcome |-> outcome]
    /\ run' = 3
    /\ pc' = "read"
    /\ df' = NoFrame
    /\ dtype_map' = <<>>
    /\ table_exists' = FALSE
    /\ new_cols' = {}
    /\ reflected' = {}
    /\ i' = 1
    /\ logs' = <<>>
    /\ trace' = <<>>
    /\ outcome' = "running"
    /\ UNCHANGED <<request, mode, nested, db, db0, file, written, gui>>

Next ==
    \/ ReadJson
    \/ DupCheck
    \/ Infer
    \/ Export
    \/ Inspect
    \/ NukeDrop
    \/ NukeCreate
    \/ NukeSetPk
    \/ AppendRows
    \/ UpsertCheck
    \/ UpsertConstraint
    \/ Evolve
    \/ UpsertReflect
    \/ UpsertBatch
    \/ Finish
    \/ RerunAsNuke
    \/ RerunSame

Spec == Init /\ [][Next]_vars

\* ------------------------------------------------------------------ the window
\* The window and its worker threads: each click on START PROCESS that goes
\* through builds a WorkerThread and starts it; each thread runs process_data
\* on the live destination, and the threads share the destination table.  The
\* data of the imports is left out: a thread is the sequence of destination
\* accesses of its mode.

\* The variables of one process_data call, which the window's steps leave alone.
call == <<request, run, first, db0, mode, nested, pc, df, dtype_map, table_exists,
          new_cols, reflected, i, db, file, written, logs, trace, outcome>>

\* WorkerThread(params), started: it is about to call process_data.
NewWorker(m) == [mode |-> m, st |-> "inspect", todo |-> <<>>, ok |-> TRUE]

\* The destination accesses of process_data after inspector.has_table, by mode
\* and by what has_table answered, for an input with the chosen key whose
\* columns the table has and that fits one batch.
Plan(m, exists) ==
    CASE m = "nuke" -> (IF exists THEN <<"drop">> ELSE <<>>) \o <<"to_sql_replace", "add_pk">>
      [] m = "append" -> <<"to_sql_append">>
      [] m = "upsert" -> <<"get_pk_constraint", "get_columns", "autoload", "upsert_batch">>

\* What an access leaves of the table: DROP removes it, to_sql creates it.
TableAfter(op, exists) ==
    CASE op = "drop" -> FALSE
      [] op \in {"to_sql_replace", "to_sql_append"} -> TRUE
      [] OTHER -> exists

\* The accesses that raise when the table is not there.
NeedsTable == {"add_pk", "get_pk_constraint", "get_columns", "autoload", "upsert_batch"}

GuiInit ==
    /\ root = "list"
    /\ data = <<>>
    /\ req_mode = "nuke"
    /\ pk_field = "id"
    /\ export = FALSE
    /\ db = NoTable
    /\ db0 = NoTable
    /\ mode = "nuke"
    /\ nested = FALSE
    /\ pc = "read"
    /\ df = NoFrame
    /\ dtype_map = <<>>
    /\ table_exists = FALSE
    /\ new_cols = {}
    /\ reflected = {}
    /\ i = 1
    /\ file = <<>>
    /\ written = FALSE
    /\ logs = <<>>
    /\ trace = <<>>
    /\ outcome = "running"
    /\ run = 1
    /\ first = NoFirst
    /\ workers = <<>>
    /\ accesses = <<>>
    /\ shared_table \in BOOLEAN

\* run_import, a click that goes through (the save dialog was not cancelled,
\* the connection fields are filled, the question was answered Yes):
\* self.worker = WorkerThread(params); self.worker.start().  Nothing in
\* run_import looks at the worker started before: the button stays enabled,
\* and the thread replaced in self.worker keeps running (its run() holds it).
RunImport ==
    /\ Len(workers) < MaxClicks
    /\ \E m \in Modes : workers' = Append(workers, NewWorker(m))
    /\ UNCHANGED <<call, accesses, shared_table>>

\* A thread's process_data asks inspector.has_table; an Upsert that finds no
\* table calls process_data(mode='nuke'), which asks again.
WorkerInspect ==
    \E w \in DOMAIN workers :
        /\ workers[w].st = "inspect"
        /\ accesses' = Append(accesses, [w |-> w, op |-> "has_table"])
        /\ workers' = [workers EXCEPT ![w] =
                IF workers[w].mode = "upsert" /\ ~shared_table
                THEN [@ EXCEPT !.mode = "nuke"]
                ELSE [@ EXCEPT !.st = "access", !.todo = Plan(workers[w].mode, shared_table)]]
        /\ UNCHANGED <<call, shared_table>>

\* A thread's next destination access; an exception ends run() with
\* finished_signal.emit(False, ...).
WorkerAccess ==
    \E w \in DOMAIN workers :
        /\ workers[w].st = "access"
        /\ workers[w].todo # <<>>
        /\ LET op == Head(workers[w].todo)
           IN /\ accesses' = Append(accesses, [w |-> w, op |-> op])
              /\ \E fails \in BOOLEAN :
                    IF fails \/ (op \in NeedsTable /\ ~shared_table)
                    THEN /\ workers' = [workers EXCEPT ![w] =
                                            [@ EXCEPT !.st = "finished", !.ok = FALSE]]
                         /\ UNCHANGED shared_table
                    ELSE /\ workers' = [workers EXCEPT ![w] =
                                            [@ EXCEPT !.todo = Tail(workers[w].todo)]]
                         /\ shared_table' = TableAfter(op, shared_table)
        /\ UNCHANGED call

\* process_data returned: finished_signal.emit(True, ...).
WorkerFinish ==
    \E w \in DOMAIN workers :
        /\ workers[w].st = "access"
        /\ workers[w].todo = <<>>
        /\ workers' = [workers EXCEPT ![w] = [@ EXCEPT !.st = "finished"]]
        /\ UNCHANGED <<call, accesses, shared_table>>

GuiNext ==
    \/ RunImport
    \/ WorkerInspect
    \/ WorkerAccess
    \/ WorkerFinish

GuiSpec == GuiInit /\ [][GuiNext]_vars

\* ------------------------------------------------------------------ claims
NoOp(ops) == \A k \in DOMAIN trace : trace[k] \notin ops

\* C1: a JSON document whose root is not an array fails with the invalid-input
\* error before any destination access: no inspector query, no DDL, no DML and
\* no script file write, whatever the mode and the sink.
C1_NonArrayRootFails ==
    root = "object" =>
        /\ NoOp(DestOps)
        /\ db = db0
        /\ ~written
        /\ pc \in {"read", "done"}
        /\ pc = "done" => outcome = "InvalidInput"

C1_Witness ==
    root = "object" /\ pc = "done" /\ outcome = "InvalidInput" /\ db.exists

\* C2: a chosen primary-key field that is no column of the incoming records
\* fails the run with the missing-field error before any write begins (no
\* drop, create, alter, insert, no script output), for every mode and sink.
C2_MissingKeyFieldFails ==
    (root = "list" /\ pk_field # NoPk /\ pk_field \notin DataFrame(data).cols) =>
        /\ NoOp(WriteOps)
        /\ db = db0
        /\ ~written
        /\ pc \in {"read", "dupcheck", "done"}
        /\ pc = "done" => outcome = "MissingField"

C2_Witness ==
    /\ root = "list" /\ pk_field = "id" /\ Len(data) = 2 /\ "id" \notin DataFrame(data).cols
    /\ pc = "done" /\ outcome = "MissingField" /\ db.exists

\* The rows of fr whose key is not repeated later, in their order.
LastOfKey(fr, pk, k) == \A j \in DOMAIN fr.rows : j > k => fr.rows[j][pk] # fr.rows[k][pk]
KeysOf(fr, pk) == {fr.rows[k][pk] : k \in DOMAIN fr.rows}
\* The last position of fr that carries a key (0: none).
LastPos(fr, pk, key) ==
    IF \E k \in DOMAIN fr.rows : fr.rows[k][pk] = key
    THEN CHOOSE k \in DOMAIN fr.rows : fr.rows[k][pk] = key /\ LastOfKey(fr, pk, k)
    ELSE 0

\* C8: last-wins duplicate resolution: the resolved sequence holds exactly one
\* record per distinct key value, that record is the last of the input with the
\* key, the survivors keep their relative input order, and the reported count
\* of removed rows is the input length minus the number of distinct keys.
\* (Stated of the frame the duplicate check hands on, at pc = "infer".)
C8_LastWins ==
    (pc = "infer" /\ pk_field # NoPk) =>
        LET input == DataFrame(data)
            n == Len(input.rows)
            distinct == Cardinality(KeysOf(input, pk_field))
        IN /\ Len(df.rows) = distinct
           /\ \A a, b \in DOMAIN df.rows : a # b => df.rows[a][pk_field] # df.rows[b][pk_field]
           \* each survivor is the last input record of its key, and the
           \* survivors stand in the order of these input positions
           /\ \A a \in DOMAIN df.rows :
                \E k \in DOMAIN input.rows :
                    /\ LastPos(input, pk_field, df.rows[a][pk_field]) = k
                    /\ input.rows[k] = df.rows[a]
           /\ \A a, b \in DOMAIN df.rows :
                a < b => LastPos(input, pk_field, df.rows[a][pk_field])
                            < LastPos(input, pk_field, df.rows[b][pk_field])
           /\ \A k \in DOMAIN logs :
                logs[k].m = "cleaned" => logs[k].n = n - distinct
           /\ (\E k \in DOMAIN logs : logs[k].m = "cleaned") <=> (distinct < n)

\* Three records, the first and the last share the key and differ: the first
\* is dropped, the second and the third survive in this order.
C8_Witness ==
    /\ root = "list" /\ pk_field = "id" /\ pc = "infer" /\ Len(data) = 3
    /\ "id" \in DOMAIN data[1] /\ "id" \in DOMAIN data[2] /\ "id" \in DOMAIN data[3]
    /\ data[1]["id"] = data[3]["id"] /\ data[1]["id"] # data[2]["id"]
    /\ data[1] # data[3]
    /\ df.rows = <<DataFrame(data).rows[2], DataFrame(data).rows[3]>>
    /\ \E k \in DOMAIN logs : logs[k] = Log("cleaned", 1)

\* Position of the last "read" of the trace before position k (0: none).
LastRead(k) ==
    IF \E j \in 1..(k - 1) : trace[j] = "read"
    THEN CHOOSE j \in 1..(k - 1) :
            trace[j] = "read" /\ \A m \in (j + 1)..(k - 1) : trace[m] # "read"
    ELSE 0

\* The rows of every INSERT of a script, in order.
RECURSIVE ScriptRows(_, _)
ScriptRows(script, from) ==
    IF from > Len(script) THEN <<>>
    ELSE (IF script[from].op = "INSERT" THEN script[from].rows ELSE <<>>)
         \o ScriptRows(script, from + 1)

\* C9: with a primary key chosen, duplicate resolution completes before type
\* inference and before the first destination write or script rendering, and
\* the records handed to either sink are the resolved ones: the frame holds no
\* repeated key once the check is past, the types are inferred from it, and
\* the script's INSERTs and a Nuke's load carry exactly its rows.
C9_ResolveBeforeInferAndWrite ==
    (root = "list" /\ pk_field # NoPk) =>
        /\ \A k \in DOMAIN trace :
            trace[k] \in ({"infer", "render"} \cup WriteOps) =>
                \E j \in (LastRead(k) + 1)..(k - 1) : trace[j] = "resolve"
        /\ (pc \notin {"read", "dupcheck"} /\ outcome # "MissingField") =>
            /\ \A a, b \in DOMAIN df.rows :
                    a # b => df.rows[a][pk_field] # df.rows[b][pk_field]
            /\ KeysOf(df, pk_field) = KeysOf(DataFrame(data), pk_field)
        /\ written =>
            LET rows == ScriptRows(file, 1)
            IN /\ Len(rows) = Cardinality(KeysOf(DataFrame(data), pk_field))
               /\ \A a, b \in DOMAIN rows : a # b => rows[a][pk_field] # rows[b][pk_field]
        /\ (pc = "nuke_pk" /\ trace[Len(trace)] = "to_sql_replace") =>
            /\ Len(db.rows) = Cardinality(KeysOf(DataFrame(data), pk_field))
            /\ db.rows = df.rows

\* A script was written from an input of three records with a repeated key.
C9_Witness ==
    /\ written /\ req_mode = "upsert" /\ pk_field = "id" /\ Len(data) = 3
    /\ Cardinality(KeysOf(DataFrame(data), "id")) = 2
    /\ Len(ScriptRows(file, 1)) = 2
    /\ trace = <<"read", "resolve", "infer", "render", "file_write">>

\* C10: an Upsert on an existing table whose primary-key constraint does not
\* cover the configured key field aborts with the missing-constraint error
\* before schema reconciliation and before any write: no ADD COLUMN, no INSERT,
\* the destination is unchanged.
C10_MissingConstraintAborts ==
    (root = "list" /\ req_mode = "upsert" /\ ~export /\ pk_field # NoPk
        /\ pk_field \in DataFrame(data).cols /\ db0.exists /\ pk_field \notin db0.pk) =>
        /\ NoOp(WriteOps \cup {"get_columns", "autoload"})
        /\ db = db0
        /\ pc \in {"read", "dupcheck", "infer", "inspect", "upsert", "constraint", "done"}
        /\ pc = "done" => outcome = "MissingConstraint"

C10_Witness ==
    /\ root = "list" /\ req_mode = "upsert" /\ ~export /\ pk_field = "id"
    /\ db0 = AppendedTable(SeedFull) /\ "v" \in df.cols /\ Len(df.rows) = 2
    /\ pc = "done" /\ outcome = "MissingConstraint"
    /\ trace[Len(trace)] = "get_pk_constraint"

\* The script of the request, as the script sink renders it.
RequestScript == generate_sql_script(Resolve(DataFrame(data), pk_field), req_mode, pk_field)

\* A first live run that ended in success.
LiveSuccess ==
    run = 1 /\ root = "list" /\ ~export /\ pc = "done" /\ outcome = "success"

\* C3: for every request (Nuke, Append or Upsert, with or without key),
\* replaying the script of generate_sql_script against an empty destination
\* leaves the same table contents as the live path run against that empty
\* destination.
C3_ScriptReplayEqualsLive ==
    (LiveSuccess /\ db0 = NoTable) =>
        Contents(db) = Contents(Replay(RequestScript, 1, NoTable))

\* The tables of the pool a Nuke run with the key 'id' has just created.
FreshlyNuked == {NukedTable(SeedFull, "id"), NukedTable(SeedKeyOnly, "id")}

\* C4: for every Upsert request against a table just created by a Nuke run
\* (primary key on the chosen field), the live batched upsert and the replay
\* of the rendered upsert script leave row-for-row identical table contents.
C4_UpsertRoundTrip ==
    (LiveSuccess /\ req_mode = "upsert" /\ db0 \in FreshlyNuked) =>
        Contents(db) = Contents(Replay(RequestScript, 1, db0))

\* The messages an Upsert call emits before it calls process_data again.
UpsertPreamble ==
    <<Log("reading", 0), Log("loaded", Len(data))>>
    \o DupLogs(DataFrame(data), pk_field)
    \o <<Log("inferring", 0), Log("init_nuke", 0)>>

Count(m) == Cardinality({k \in DOMAIN logs : logs[k].m = m})

\* A live Upsert request with a key of the data, on a destination without the table.
UpsertOnMissingTable ==
    /\ root = "list" /\ ~export /\ pk_field # NoPk /\ pk_field \in DataFrame(data).cols
    /\ ~db0.exists

\* C5 as stated: an Upsert run on a missing table transitions to Nuke exactly
\* once, the mode changes at no other point, and the destination state and the
\* report (message sequence and terminal outcome) equal those of a direct Nuke
\* run with the same input.
C5_ReportEqualsNuke ==
    (run = 2 /\ pc = "done" /\ first.outcome = outcome) =>
        /\ first.db = db
        /\ first.logs = logs

\* C5 amended: the transition happens exactly once and is the only change of
\* mode; the destination and the terminal outcome are those of a direct Nuke
\* run that meets the same destination failures, and the messages are the
\* Upsert call's own preamble followed by exactly the direct Nuke run's
\* messages.
C5_NukeFallback ==
    /\ mode # req_mode =>
        (nested /\ req_mode = "upsert" /\ mode = "nuke" /\ ~db0.exists /\ Count("init_nuke") = 1)
    /\ nested => (mode # req_mode /\ ~table_exists)
    /\ (run = 1 /\ req_mode = "upsert" /\ UpsertOnMissingTable /\ pc = "done") =>
        (nested /\ Count("init_nuke") = 1)
    /\ (run = 2 /\ pc = "done" /\ first.outcome = outcome) =>
        /\ first.db = db
        /\ first.logs = UpsertPreamble \o logs

\* The direct Nuke run ended in success as the Upsert run did, on an input
\* with a repeated key.
C5_Witness ==
    /\ run = 2 /\ pc = "done" /\ outcome = "success" /\ first.outcome = "success"
    /\ Len(data) = 3 /\ Len(db.rows) = 2 /\ db.pk = {"id"}
    /\ first.db = db
    /\ Len(first.logs) > Len(logs)

\* The row of table d with a key value.
RowsWithKey(d, pk, key) == {k \in DOMAIN d.rows : d.rows[k][pk] = key}

\* A first live Upsert run on an existing table that ended in success.
UpsertSuccess == LiveSuccess /\ req_mode = "upsert" /\ ~nested

\* C6: after a successful Upsert on an existing table, for every key of the
\* input the destination row with that key holds, in every non-key incoming
\* column, the value of the last input record with the key; new keys are
\* inserted as new rows; rows whose key is not in the input, and the columns
\* of updated rows that are not incoming columns, are unchanged.
C6_UpsertEffect ==
    UpsertSuccess =>
        LET input == DataFrame(data)
            keys == KeysOf(input, pk_field)
        IN /\ \A k \in DOMAIN input.rows :
                LastOfKey(input, pk_field, k) =>
                    /\ Cardinality(RowsWithKey(db, pk_field, input.rows[k][pk_field])) = 1
                    /\ \A j \in RowsWithKey(db, pk_field, input.rows[k][pk_field]) :
                         \A c \in input.cols \ {pk_field} : db.rows[j][c] = input.rows[k][c]
           /\ Len(db.rows) = Len(db0.rows)
                + Cardinality(keys \ KeysOf(db0, pk_field))
           /\ \A j \in DOMAIN db0.rows :
                \E m \in RowsWithKey(db, pk_field, db0.rows[j][pk_field]) :
                    \A c \in DOMAIN db0.cols :
                        (db0.rows[j][pk_field] \notin keys \/ c \notin input.cols)
                            => db.rows[m][c] = db0.rows[j][c]

\* C7: in Upsert mode with the primary-key column as the only incoming column,
\* rows whose key already exists are left untouched (DO NOTHING), in the live
\* path and in the rendered script alike; only new keys are inserted.
C7_KeyOnlyUpsertLeavesRows ==
    (UpsertSuccess /\ DataFrame(data).cols = {pk_field}) =>
        LET replayed == Replay(RequestScript, 1, db0)
            newkeys == KeysOf(DataFrame(data), pk_field) \ KeysOf(db0, pk_field)
        IN /\ \A j \in DOMAIN db0.rows : db.rows[j] = db0.rows[j]
           /\ \A j \in DOMAIN db0.rows : replayed.rows[j] = db0.rows[j]
           /\ Len(db.rows) = Len(db0.rows) + Cardinality(newkeys)
           /\ Len(replayed.rows) = Len(db0.rows) + Cardinality(newkeys)

\* Number of accesses of a kind in the trace.
Ops(op) == Cardinality({k \in DOMAIN trace : trace[k] = op})

\* A live Upsert request that finds the table.
UpsertOnExistingTable == root = "list" /\ req_mode = "upsert" /\ ~export /\ db0.exists

\* C11: schema evolution is additive-only: at every point of an Upsert run on
\* an existing table (successful or failed, any input) every column the table
\* had before the run is still there with its original type, and the only DDL
\* the run issues is ADD COLUMN, once per incoming column the table lacked: no
\* drop, no re-creation, no key change; a column that appears is an incoming
\* column with the type inferred for it.
C11_AdditiveOnly ==
    UpsertOnExistingTable =>
        /\ db.exists
        /\ \A c \in DOMAIN db0.cols : c \in DOMAIN db.cols /\ db.cols[c] = db0.cols[c]
        /\ db.pk = db0.pk
        /\ NoOp({"drop", "to_sql_replace", "add_serial", "add_pk", "to_sql_append"})
        /\ \A c \in DOMAIN db.cols \ DOMAIN db0.cols :
                c \in df.cols /\ db.cols[c] = SqlType(analyze_dataframe(df)[c])
        /\ Ops("add_column") <= Cardinality(df.cols \ DOMAIN db0.cols)
        /\ Ops("add_column") >= Cardinality(DOMAIN db.cols \ DOMAIN db0.cols)

\* An Upsert run added the column 'v' to a table that had only 'id', then a
\* batch failed: the run ended in an error with both columns in place.
C11_Witness ==
    /\ UpsertOnExistingTable /\ db0 = NukedTable(SeedKeyOnly, "id")
    /\ pc = "done" /\ outcome = "BatchFailed"
    /\ DOMAIN db.cols = {"id", "v"} /\ db.cols["v"] = "TEXT" /\ db.cols["id"] = db0.cols["id"]
    /\ Ops("add_column") = 1

\* C12: in Upsert mode a failed ADD COLUMN is a warning: the column is skipped,
\* the remaining new columns are still attempted and the sync is not aborted;
\* the batch upsert that follows runs, and the run ends in success unless the
\* destination rejects a batch.
C12_AddColumnFailureNonFatal ==
    (UpsertOnExistingTable /\ pc = "done" /\ Count("warn_addcol") > 0) =>
        /\ Ops("add_column") = Cardinality(df.cols \ DOMAIN db0.cols)
        /\ Count("warn_addcol") + Count("added") = Ops("add_column")
        /\ Count("upserting") = 1
        /\ outcome \in {"success", "BatchFailed"}
        /\ Len(df.rows) > 0 => Ops("upsert_batch") > 0

\* A live Nuke run that reported success.
NukeSuccess ==
    root = "list" /\ req_mode = "nuke" /\ ~export /\ pc = "done" /\ outcome = "success"

\* C13: after every Nuke run that reports success the table holds exactly the
\* resolved input records and has a primary key: on the chosen key field when
\* one was given, otherwise on 'id'; the identity column is synthesized only
\* when no key was chosen and the data has no 'id' field.  A failure to create
\* the table or its key is never a success.
C13_NukeSuccessHasKey ==
    NukeSuccess =>
        LET fr == Resolve(DataFrame(data), pk_field)
            synth == pk_field = NoPk /\ "id" \notin fr.cols
        IN /\ db.exists
           /\ DOMAIN db.cols = fr.cols \cup (IF synth THEN {"id"} ELSE {})
           /\ Len(db.rows) = Len(fr.rows)
           /\ \A k \in DOMAIN fr.rows : \A c \in fr.cols : db.rows[k][c] = fr.rows[k][c]
           /\ (db.serial > 0) <=> synth
           /\ db.pk = {IF pk_field # NoPk THEN pk_field ELSE "id"}
           /\ Count("warn_pk") = 0

\* The schema of a table: whether it exists, its columns with their types and
\* its primary key.
Schema(d) == [exists |-> d.exists, cols |-> d.cols, pk |-> d.pk]

\* C14: Nuke is idempotent: a second successful Nuke run with the same input
\* on what the first left, whatever the destination was before the first run,
\* leaves the schema and the row set the first run left.
C14_NukeIdempotent ==
    (run = 3 /\ pc = "done" /\ outcome = "success") =>
        /\ Schema(db) = Schema(first.db)
        /\ Contents(db) = Contents(first.db)
        /\ db.serial = first.db.serial

\* Two records without 'id' and no key chosen, on a destination that held
\* another table: both runs leave the two rows under a serial id.
C14_Witness ==
    /\ run = 3 /\ pc = "done" /\ outcome = "success" /\ first.outcome = "success"
    /\ db0 = NukedTable(SeedFull, "id") /\ pk_field = NoPk
    /\ Len(data) = 2 /\ Len(db.rows) = 2 /\ db.pk = {"id"} /\ db.serial = 3
    /\ db # db0 /\ db = first.db
    /\ Ops("drop") = 1 /\ Ops("to_sql_replace") = 1

\* A live Append request.
AppendRun == root = "list" /\ req_mode = "append" /\ ~export

\* Some incoming record carries a key value that a row of the destination's
\* primary key already holds.
KeyCollision ==
    /\ db0.exists /\ db0.pk = {"id"}
    /\ "id" \in DataFrame(data).cols
    /\ \E k \in DOMAIN data : \E j \in DOMAIN db0.rows :
            DataFrame(data).rows[k]["id"] = db0.rows[j]["id"]

\* C15: in Append mode a constraint violation on any incoming row (a key that
\* already exists in the destination) is fatal: the run never ends in success
\* but in the append error, reported and raised, and no row of the input is
\* persisted, the rows before the offending one included.
C15_AppendViolationFatal ==
    AppendRun =>
        /\ KeyCollision =>
            /\ outcome # "success"
            /\ db = db0
            /\ pc = "done" => outcome = "AppendFailed"
        /\ outcome = "AppendFailed" =>
            /\ pc = "done"
            /\ db = db0
            /\ logs[Len(logs)] = Log("err_append", 0)
            /\ Count("success") = 0

\* Two records: a new key first, then the key the table holds; the run failed
\* and the first record was not persisted either.
C15_Witness ==
    /\ AppendRun /\ KeyCollision /\ db0 = NukedTable(SeedFull, "id")
    /\ Len(data) = 2 /\ DOMAIN data[1] = {"id", "v"} /\ DOMAIN data[2] = {"id", "v"}
    /\ data[1]["id"] = IntV(2) /\ data[2]["id"] = IntV(1)
    /\ pc = "done" /\ outcome = "AppendFailed" /\ db = db0
    /\ Ops("to_sql_append") = 1

\* C16 as stated: an Append run never alters the destination schema: no drop,
\* create or add-column, and the table's existence, column set, column types
\* and primary key equal those before the run at every point of it, also when
\* the target table does not exist or the input has columns the table lacks.
\* (Stated of the inputs that hold a record.)
C16_AppendNeverAltersSchema ==
    (AppendRun /\ data # <<>>) =>
        /\ NoOp({"drop", "to_sql_replace", "add_serial", "add_pk", "add_column"})
        /\ Schema(db) = Schema(db0)

\* C16 amended: an Append run issues no drop, re-creation, key change or
\* add-column; on an existing table the columns, their types and the key stay
\* as they were, in successful and failed runs, also when the input has
\* columns the table lacks (the run then fails); a table that does not exist
\* is created by the load, from the incoming columns and without a key.
C16_AppendKeepsExistingSchema ==
    AppendRun =>
        /\ NoOp({"drop", "to_sql_replace", "add_serial", "add_pk", "add_column"})
        /\ db0.exists => Schema(db) = Schema(db0)
        /\ (db0.exists /\ ~(df.cols \subseteq DOMAIN db0.cols)) => outcome # "success"
        /\ ~db0.exists =>
            /\ db.exists <=> Ops("to_sql_append") = 1
            /\ db.exists =>
                /\ db.cols = [c \in df.cols |-> ToSqlType(analyze_dataframe(df)[c])]
                /\ db.pk = {}
                /\ db.rows = df.rows
                /\ outcome \in {"running", "success"}

\* An input with the column 'v' on a table that has only 'id': the run failed
\* and the table has still only 'id'.
C16_Witness ==
    /\ AppendRun /\ db0 = NukedTable(SeedKeyOnly, "id") /\ "v" \in df.cols
    /\ Len(df.rows) = 2
    /\ pc = "done" /\ outcome = "AppendFailed" /\ Schema(db) = Schema(db0)
    /\ Ops("to_sql_append") = 1

\* C17: in the live Upsert path each batch is committed on its own: when the
\* k-th batch fails, the records of the batches 1..k-1 are in the table with
\* their incoming values, the records of batch k and of the later batches have
\* left no trace (no new row, no changed row), no later batch was attempted
\* and the run has ended in failure.  (i is the first record of batch k.)
C17_BatchesCommitIndependently ==
    (UpsertOnExistingTable /\ pc = "done" /\ outcome = "BatchFailed") =>
        LET applied == SubSeq(df.rows, 1, i - 1)
            akeys == {applied[k][pk_field] : k \in DOMAIN applied}
            batches == (i - 1) \div LiveBatchSize
        IN /\ i <= Len(df.rows)
           /\ (i - 1) % LiveBatchSize = 0
           /\ \A k \in DOMAIN applied :
                \E j \in DOMAIN db.rows :
                    \A c \in df.cols : db.rows[j][c] = applied[k][c]
           /\ Len(db.rows) = Len(db0.rows) + Cardinality(akeys \ KeysOf(db0, pk_field))
           /\ \A j \in DOMAIN db0.rows :
                db0.rows[j][pk_field] \notin akeys =>
                    \E m \in DOMAIN db.rows :
                        \A c \in DOMAIN db0.cols : db.rows[m][c] = db0.rows[j][c]
           /\ Ops("upsert_batch") = batches + 1
           /\ Count("batch") = batches
           /\ Count("success") = 0

\* Three records in two batches: the first batch brought a new key and
\* changed the row the table held, the second batch failed.
C17_Witness ==
    /\ UpsertOnExistingTable /\ pc = "done" /\ outcome = "BatchFailed"
    /\ db0 = NukedTable(SeedFull, "id")
    /\ Len(df.rows) = 3 /\ i = 3 /\ Count("batch") = 1 /\ Ops("upsert_batch") = 2
    /\ Len(db.rows) = 2 /\ db.rows[1] # db0.rows[1]

\* The messages that report an error, and the messages that end a run.
ErrorMsgs == {"err_read", "err_root", "err_pk", "err_export", "err_drop", "err_append",
              "err_nopk_2"}
FinalMsgs == ErrorMsgs \cup {"success", "saved"}

\* The place of a message in the order of the code: read complete, duplicate
\* cleanup, schema inference, the messages of the mode's branch, the batches,
\* the final message.
RankInCode(m) ==
    CASE m = "reading" -> 0
      [] m = "loaded" -> 1
      [] m = "warn_dupes" -> 2
      [] m = "warn_examples" -> 3
      [] m = "cleaning" -> 4
      [] m = "cleaned" -> 5
      [] m = "inferring" -> 6
      [] m = "batch" -> 8
      [] m \in FinalMsgs -> 9
      [] OTHER -> 7

\* The place of a message in the order C18 states: read complete, schema
\* inferred, duplicate cleanup, the batches, the final message.
RankAsStated(m) ==
    CASE m = "reading" -> 0
      [] m = "loaded" -> 1
      [] m = "inferring" -> 2
      [] m = "warn_dupes" -> 3
      [] m = "warn_examples" -> 4
      [] m = "cleaning" -> 5
      [] m = "cleaned" -> 6
      [] m = "batch" -> 8
      [] m \in FinalMsgs -> 9
      [] OTHER -> 7

\* Within one call of process_data (a call begins with "reading") the messages
\* follow the order of a ranking: each message stands later in it than the one
\* before, the branch's own messages and the batch messages may repeat.
OrderedBy(Rank(_)) ==
    \A k \in 1..(Len(logs) - 1) :
        logs[k + 1].m # "reading" =>
            \/ Rank(logs[k].m) < Rank(logs[k + 1].m)
            \/ (Rank(logs[k].m) = Rank(logs[k + 1].m) /\ Rank(logs[k].m) \in {7, 8})

\* The batch messages count upwards, and a successful live Upsert on an
\* existing table has one per batch, the last one at the total.
BatchMessagesAscend ==
    /\ \A k \in 1..(Len(logs) - 1) :
            (logs[k].m = "batch" /\ logs[k + 1].m = "batch") => logs[k].n < logs[k + 1].n
    /\ \A k \in DOMAIN logs : logs[k].m = "batch" => logs[k].n <= Len(df.rows)
    /\ (UpsertOnExistingTable /\ pc = "done" /\ outcome = "success") =>
            /\ Count("batch") = (Len(df.rows) + LiveBatchSize - 1) \div LiveBatchSize
            /\ Len(df.rows) > 0 => logs[Len(logs) - 1] = Log("batch", Len(df.rows))

C19_OneTerminalOutcome ==
    /\ Count("success") + Count("saved") <= 1
    /\ \A k \in DOMAIN logs : logs[k].m \in {"success", "saved"} => k = Len(logs)
    /\ (outcome \notin {"running", "success"}) =>
            /\ pc = "done"
            /\ Count("success") + Count("saved") = 0
            /\ logs[Len(logs)].m \in ErrorMsgs
    /\ outcome = "success" =>
            /\ pc = "done"
            /\ logs[Len(logs)].m \in {"success", "saved"}
    /\ pc = "done" => outcome # "running"

\* The number of batches of n records in batches of size.
BatchCount(n, size) == (n + size - 1) \div size

\* C20: for Nuke mode the rendered script holds, in this order and nothing
\* else: one DROP TABLE IF EXISTS, one CREATE TABLE that lists every incoming
\* column with the primary-key constraint inline on the chosen key, or with a
\* synthesized identity column if no key was given, then exactly one INSERT
\* per batch, in batch order, each carrying the records of its batch.
C20_NukeScriptOrder ==
    (written /\ req_mode = "nuke") =>
        LET n == Len(df.rows)
            batches == BatchCount(n, ScriptBatchSize)
        IN /\ Len(file) = 2 + batches
           /\ file[1].op = "DROP"
           /\ file[2].op = "CREATE"
           /\ file[2].cols = df.cols
           /\ \A c \in df.cols : file[2].types[c] = SqlType(analyze_dataframe(df)[c])
           /\ pk_field # NoPk => (file[2].pk = pk_field /\ ~file[2].serial)
           /\ pk_field = NoPk => (file[2].pk = NoPk /\ file[2].serial)
           /\ \A b \in 1..batches :
                /\ file[2 + b].op = "INSERT"
                /\ file[2 + b].conflict = "none"
                /\ file[2 + b].cols = df.cols
                /\ file[2 + b].rows =
                    [k \in 1..Min(ScriptBatchSize, n - (b - 1) * ScriptBatchSize) |->
                        [c \in df.cols |->
                            to_sql_literal(df.rows[(b - 1) * ScriptBatchSize + k][c])]]

\* C21: Upsert mode requires a primary key in both sinks: an Upsert request
\* without key field fails before any destination write and before a script is
\* rendered or written, and no script of an Upsert request holds an INSERT
\* without an ON CONFLICT clause on the key.  (Stated of the inputs that hold a
\* record.)
C21_UpsertRequiresKey ==
    (root = "list" /\ req_mode = "upsert" /\ data # <<>>) =>
        /\ pk_field = NoPk =>
            /\ NoOp(WriteOps \cup {"render"})
            /\ db = db0
            /\ ~written
            /\ outcome \in {"running", "NoPkError"}
        /\ written =>
            \A k \in DOMAIN file :
                file[k].op = "INSERT" =>
                    (file[k].conflict \in {"update", "nothing"} /\ file[k].pk = pk_field)

\* The type C22 assigns to a column from its non-null values.
TypeOfValues(nonnull) ==
    IF \E x \in nonnull : x.k = "json" THEN "JSONB"
    ELSE IF nonnull = {} THEN "String"
    ELSE IF \A x \in nonnull : x.k = "int" THEN "BigInteger"
    ELSE IF \A x \in nonnull : x.k \in {"int", "float"} THEN "Float"
    ELSE IF \A x \in nonnull : x.k = "bool" THEN "Boolean"
    ELSE "String"

\* C22: type inference gives each column one type from the column's non-null
\* values, by priority: a nested object or array gives StructuredJSON; else
\* all integral gives Integer; else all numeric gives Decimal; else all
\* boolean gives Boolean; else Text; an empty or all-null column gives Text;
\* nulls do not change the type inferred from the non-null values.
C22_TypeFromNonNullValues ==
    \A c \in DOMAIN dtype_map :
        dtype_map[c] = TypeOfValues({df.rows[k][c] : k \in DOMAIN df.rows} \ {Null})

\* The rows of a frame as the script writes them.
LitRows(fr) == [k \in DOMAIN fr.rows |-> [c \in fr.cols |-> to_sql_literal(fr.rows[k][c])]]

\* The batches of a script: the rows of each INSERT, in order.
InsertBatches(script) ==
    LET IsInsert(st) == st.op = "INSERT"
        ins == SelectSeq(script, IsInsert)
    IN [k \in DOMAIN ins |-> ins[k].rows]

RECURSIVE Flatten(_, _)
Flatten(bs, from) == IF from > Len(bs) THEN <<>> ELSE bs[from] \o Flatten(bs, from + 1)

\* bs partitions rows into batches of size: in order and contiguous, every row
\* in exactly one batch, no batch empty or longer than size, only the last one
\* shorter, and none for no rows.
Partitions(bs, rows, size) ==
    /\ Flatten(bs, 1) = rows
    /\ \A k \in DOMAIN bs : Len(bs[k]) >= 1 /\ Len(bs[k]) <= size
    /\ \A k \in 1..(Len(bs) - 1) : Len(bs[k]) = size
    /\ Len(bs) = BatchCount(Len(rows), size)
    /\ rows = <<>> => bs = <<>>

\* The live batch loop has been entered.
InBatchLoop == pc = "batch" \/ Ops("upsert_batch") > 0

\* C23: batching partitions the resolved record sequence: batches are
\* contiguous slices of at most batchSize records, every record is in exactly
\* one batch, batches are processed in input order, only the last batch may be
\* shorter than batchSize, and an empty input yields zero batches.  In a
\* script written the INSERT statements partition the rows of the frame (and
\* so they do when cut at any other batch size); in the live upsert the loop
\* advances by whole batches from the first record, the k-th batch ends at
\* record min(k * batchSize, total), the records of the batches done are in
\* the table and no new record of a later batch is, and a run that succeeds
\* has processed ceil(total / batchSize) batches.
C23_BatchesPartitionRecords ==
    /\ written =>
        /\ Partitions(InsertBatches(file), LitRows(df), ScriptBatchSize)
        /\ \A size \in 1..MaxRecs :
                Partitions(InsertBatches(ScriptBatches(df, 1, size, req_mode, pk_field)),
                           LitRows(df), size)
    /\ UpsertOnExistingTable =>
        LET n == Len(df.rows)
            batches == Count("batch")
        IN /\ i = 1 + LiveBatchSize * batches
           /\ batches <= BatchCount(n, LiveBatchSize)
           /\ pc = "batch" => i <= n
           /\ Ops("upsert_batch") = batches + (IF outcome = "BatchFailed" THEN 1 ELSE 0)
           /\ \A k \in DOMAIN logs :
                logs[k].m = "batch" =>
                    logs[k].n = IF k > 1 /\ logs[k - 1].m = "batch"
                                THEN Min(logs[k - 1].n + LiveBatchSize, n)
                                ELSE Min(LiveBatchSize, n)
           /\ (pc = "done" /\ outcome = "success") => batches = BatchCount(n, LiveBatchSize)
           /\ InBatchLoop =>
                /\ \A k \in 1..Min(i - 1, n) :
                        \E j \in DOMAIN db.rows :
                            \A c \in df.cols : db.rows[j][c] = df.rows[k][c]
                /\ \A k \in i..n :
                        df.rows[k][pk_field] \notin KeysOf(db0, pk_field) =>
                            df.rows[k][pk_field] \notin KeysOf(db, pk_field)

\* A live upsert of three records has committed its first batch of two and
\* has the last record left for a shorter batch; the same three records are
\* cut into two INSERTs at that batch size.
C23_Witness ==
    /\ UpsertOnExistingTable /\ pc = "batch"
    /\ Len(df.rows) = 3 /\ i = 3 /\ Ops("upsert_batch") = 1
    /\ logs[Len(logs)] = Log("batch", 2)
    /\ db # db0
    /\ Len(InsertBatches(ScriptBatches(df, 1, LiveBatchSize, req_mode, pk_field))) = 2

\* C24: at most one import runs at a time: a new WorkerThread is not started
\* while a previously started one has not yet emitted finished_signal, so no
\* two process_data executions interleave their reads and writes against the
\* same destination table: of any two threads one has finished, and the
\* accesses of a thread started earlier all precede those of a later one.
C24_OneImportAtATime ==
    /\ \A a, b \in DOMAIN workers :
            a # b => (workers[a].st = "finished" \/ workers[b].st = "finished")
    /\ \A k \in 1..(Len(accesses) - 1) : accesses[k].w <= accesses[k + 1].w

====
